---- MODULE Spec2Model ----
(***************************************************************************)
(* A model of scraper.py, the BBC headline notifier: the selector-fallback *)
(* extractor inside fetch_headlines, the title-keyed store written through *)
(* one sqlite connection (save_headlines), the per-recipient Telegram      *)
(* fan-out (send_telegram_notification) and the run sequencing of main.    *)
(***************************************************************************)
EXTENDS Integers, Sequences, FiniteSets, TLC

VARIABLES
    \* ---- fetch_headlines on one page (SpecExtract) ----
    page,           \* the parsed document: the <a> elements in document order
    epc,            \* "ready" | "returned" ("off" outside SpecExtract)
    result,         \* what ExtractHeadlines returned for page
    \* ---- send_telegram_notification on one configuration (SpecNotify) ----
    env,            \* the .env contents: TELEGRAM_TOKEN set?, TELEGRAM_CHAT_IDS entries
    responses,      \* what requests.post does for the i-th recipient
    npc,            \* "ready" | "returned" ("off" outside SpecNotify)
    nres,           \* what send_telegram_notification returned
    \* ---- runs of main against one headlines.db (Spec) ----
    db,             \* committed rows of table headlines, in id order
    tableExists,    \* CREATE TABLE has been committed to headlines.db
    run,            \* number of the current run of main
    pc,             \* where the current run stands
    cred,           \* main's (token, chat_ids)
    conn,           \* main's variable conn: "unset" | "None" | "handle"
    handle,         \* the connection opened by setup_database: "none" | "open" | "closed"
    txn,            \* rows inserted on the connection and not yet committed
    headlines,      \* main's headlines
    new_headlines,  \* main's new_headlines
    sendResult,     \* main's (success_count, total_attempts) of line 379
    exit,           \* how the run left main: "" | "return" | "interrupt" | "error" | "crash"
    \* ---- history of the runs, read by the properties only ----
    calls,          \* the calls main made in this run, in order
    startRows,      \* Len(db) when the run started
    probeFailed,    \* is_first_run's query raised in this run
    aborted,        \* rows pending when save_headlines raised in this run
    saved,          \* <<run, candidates>> of every save_headlines call that returned
    notified        \* <<title, run, success_count>> of every title put into a
                    \* headline message

evars == <<page, epc, result>>
nvars == <<responses, npc, nres>>
mvars == <<db, tableExists, run, pc, cred, conn, handle, txn, headlines,
           new_headlines, sendResult, exit, calls, startRows, probeFailed,
           aborted, saved, notified>>
vars == <<page, epc, result, env, responses, npc, nres, db, tableExists, run,
          pc, cred, conn, handle, txn, headlines, new_headlines, sendResult,
          exit, calls, startRows, probeFailed, aborted, saved, notified>>

(***************************************************************************)
(* Bounds of the model.                                                    *)
(***************************************************************************)
MaxPageLen == 2      \* exhaustively enumerated pages have at most this many <a>
LongSlack == 3       \* regular long pages run up to 2 * (MaxHeadlines + LongSlack) <a>
MaxRecipients == 3   \* entries of TELEGRAM_CHAT_IDS
MaxRuns == 3         \* runs of main against the same headlines.db
ExtraNew == 2        \* the largest page of a run has NotifyLimit + ExtraNew headlines

(***************************************************************************)
(* Program constants.                                                      *)
(***************************************************************************)
MinTitleLen == 10
MaxTitleLen == 150
MaxHeadlines == 20
NotifyLimit == 5
NotifyTitleLen == 80

\* The four CSS selectors, in the order fetch_headlines tries them.
selectors ==
    << "a[data-testid=internal-link]", "a.bbc-1f5kfds",
       "a.gs-c-promo-heading", "a.ssrcss-1mrs5ns-PromoLink" >>

SelIdx == 1..Len(selectors)

(***************************************************************************)
(* An <a> element is [matches, title, href]:                               *)
(*   matches \subseteq SelIdx  the selectors whose pattern it satisfies    *)
(*   title = <<id, len>>       its stripped text (id) and the text's length*)
(*   href  = <<kind, path>>    "none": no href or an empty one;            *)
(*                             "rel": "/path"; "abs": BBC_URL + "/path"    *)
(*                             written out in full; "ext": another         *)
(*                             http(s) URL; "bad": any other scheme.       *)
(***************************************************************************)

\* soup.select(selector): the elements matching it, in document order
Select(doc, s) == SelectSeq(doc, LAMBDA a : s \in a.matches)

\* line 196: not title or len(title) < 10 or len(title) > 150
TitleRejected(title) ==
    title[2] = 0 \/ title[2] < MinTitleLen \/ title[2] > MaxTitleLen

\* the `continue` of lines 202 and 208, as a value no URL equals
Skip == <<"skip", 0>>

\* lines 200-208: the absolute URL of an href, or Skip when the element is
\* skipped (no href, or neither site-relative nor http/https)
ResolveUrl(href) ==
    CASE href[1] = "none" -> Skip
      [] href[1] = "rel"  -> <<"abs", href[2]>>
      [] href[1] = "abs"  -> href
      [] href[1] = "ext"  -> href
      [] OTHER            -> Skip

\* line 211: any(h['url'] == url for h in headlines)
DuplicateUrl(hs, url) == \E k \in 1..Len(hs) : hs[k].url = url

\* The body of the inner loop for one element (lines 193-217): the list
\* after the element was looked at.
AcceptElement(hs, a) ==
    IF TitleRejected(a.title) THEN hs
    ELSE LET url == ResolveUrl(a.href) IN
         IF url = Skip THEN hs
         ELSE IF DuplicateUrl(hs, url) THEN hs
         ELSE Append(hs, [title |-> a.title, url |-> url])

\* Mutant: the cap is tested with > instead of >=, so the list reaches 21.
RECURSIVE ScanElements_LateCap(_, _, _)
ScanElements_LateCap(elems, i, hs) ==
    IF i > Len(elems) THEN hs
    ELSE LET hs2 == AcceptElement(hs, elems[i]) IN
         IF Len(hs2) > Len(hs) /\ Len(hs2) > MaxHeadlines THEN hs2
         ELSE ScanElements_LateCap(elems, i + 1, hs2)

\* The inner loop (lines 191-221) from element i on: `break` once an append
\* brought the list to 20.
RECURSIVE ScanElements(_, _, _)
ScanElements(elems, i, hs) ==
    IF i > Len(elems) THEN hs
    ELSE LET hs2 == AcceptElement(hs, elems[i]) IN
         IF Len(hs2) > Len(hs) /\ Len(hs2) >= MaxHeadlines THEN hs2
         ELSE ScanElements(elems, i + 1, hs2)

\* Mutant: the outer loop lacks `if headlines: break` and accumulates.
RECURSIVE TrySelectors_NoBreak(_, _, _)
TrySelectors_NoBreak(doc, s, st) ==
    IF s > Len(selectors) THEN st
    ELSE TrySelectors_NoBreak(doc, s + 1,
            [headlines |-> ScanElements(Select(doc, s), 1, st.headlines),
             consulted |-> Append(st.consulted, s)])

\* The outer loop (lines 187-221) from selector s on.  st.headlines is the
\* list so far; st.consulted records the selectors handed to soup.select.
RECURSIVE TrySelectors(_, _, _)
TrySelectors(doc, s, st) ==
    IF s > Len(selectors) THEN st
    ELSE IF st.headlines # <<>> THEN st
    ELSE TrySelectors(doc, s + 1,
            [headlines |-> ScanElements(Select(doc, s), 1, st.headlines),
             consulted |-> Append(st.consulted, s)])

\* Lines 177-224 of fetch_headlines on a parsed page.
ExtractHeadlines(doc) ==
    TrySelectors(doc, 1, [headlines |-> <<>>, consulted |-> <<>>])

(***************************************************************************)
(* The pages fetch_headlines is run on.                                    *)
(***************************************************************************)
SeqsUpTo(S, n) == UNION { [1..k -> S] : k \in 0..n }

SmallTitles == { <<1, 10>>, <<2, 150>>, <<3, 9>>, <<4, 151>> }
SmallHrefs ==
    { <<"none", 0>>, <<"rel", 1>>, <<"abs", 1>>, <<"ext", 1>>, <<"bad", 1>> }
SmallMatches == { {1}, {2}, {1, 2}, {4} }
SmallElements == [matches : SmallMatches, title : SmallTitles, href : SmallHrefs]

\* every page of at most MaxPageLen elements over SmallElements
SmallPages == SeqsUpTo(SmallElements, MaxPageLen)

\* A regular page of n elements under selector s, after r elements under
\* selector 1 that are all rejected (no href) and before t acceptable elements
\* that match only the selectors after s.  shape "distinct": n different
\* links; "pairs": every second element repeats the link before it, once as
\* "/path" and once written out in full; "short": every third title has 9
\* characters.
LongElement(s, shape, i) ==
    [matches |-> {s},
     title   |-> IF shape = "short" /\ i % 3 = 0 THEN <<i, 9>> ELSE <<i, 10 + i>>,
     href    |-> IF shape = "pairs"
                 THEN (IF i % 2 = 0 THEN <<"abs", i - 1>> ELSE <<"rel", i>>)
                 ELSE <<"rel", i>>]

LongPage(s, shape, n, r, t) ==
    [i \in 1..r |-> [matches |-> {1}, title |-> <<100 + i, 20>>, href |-> <<"none", 0>>]]
    \o [i \in 1..n |-> LongElement(s, shape, i)]
    \o [i \in 1..t |-> [matches |-> { u \in SelIdx : u > s },
                        title |-> <<200 + i, 20>>, href |-> <<"ext", 200 + i>>]]

LongPages ==
    { LongPage(s, shape, n, r, t) :
        s \in SelIdx, shape \in {"distinct", "pairs", "short"},
        n \in (MaxHeadlines - 2)..(2 * (MaxHeadlines + LongSlack)),
        r \in 0..1, t \in 0..1 }

Pages == SmallPages \cup LongPages

(***************************************************************************)
(* get_telegram_credentials and send_telegram_notification.                *)
(***************************************************************************)
\* cid.strip() on the raw entries of TELEGRAM_CHAT_IDS the model uses
Strip(raw) ==
    CASE raw = " "  -> ""
      [] raw = " b" -> "b"
      [] OTHER      -> raw

RECURSIVE StripAll(_)
StripAll(raws) ==
    IF raws = <<>> THEN <<>>
    ELSE LET c == Strip(Head(raws)) IN
         (IF c = "" THEN <<>> ELSE <<c>>) \o StripAll(Tail(raws))

\* lines 108-118: (token, chat_ids), or (None, []) when either is missing
get_telegram_credentials(e) ==
    LET chat_ids == StripAll(e.ids) IN
    IF ~e.token \/ chat_ids = <<>>
    THEN [token |-> FALSE, chat_ids |-> <<>>]
    ELSE [token |-> TRUE, chat_ids |-> chat_ids]

\* Mutant: the try/except sits around the loop, so the first exception ends
\* the delivery.
RECURSIVE SendLoop_Abort(_, _, _, _, _)
SendLoop_Abort(chat_ids, message, resp, i, st) ==
    IF i > Len(chat_ids) THEN st
    ELSE LET posted == [st EXCEPT !.posts = Append(@, [chat_id |-> chat_ids[i], text |-> message])] IN
         CASE resp[i] = "200" ->
                SendLoop_Abort(chat_ids, message, resp, i + 1,
                               [posted EXCEPT !.success_count = @ + 1])
           [] resp[i] = "interrupt" -> [posted EXCEPT !.raised = TRUE]
           [] resp[i] = "exception" -> posted
           [] OTHER -> SendLoop_Abort(chat_ids, message, resp, i + 1, posted)

\* The loop of lines 139-160 from recipient i on.  st.posts records the
\* requests.post calls made; resp[i] is what the i-th call does: "200",
\* "non200", "exception" (caught at line 159) or "interrupt" (a
\* KeyboardInterrupt, which `except Exception` lets through).
RECURSIVE SendLoop(_, _, _, _, _)
SendLoop(chat_ids, message, resp, i, st) ==
    IF i > Len(chat_ids) THEN st
    ELSE LET posted == [st EXCEPT !.posts = Append(@, [chat_id |-> chat_ids[i], text |-> message])] IN
         CASE resp[i] = "200" ->
                SendLoop(chat_ids, message, resp, i + 1,
                         [posted EXCEPT !.success_count = @ + 1])
           [] resp[i] = "interrupt" -> [posted EXCEPT !.raised = TRUE]
           [] OTHER -> SendLoop(chat_ids, message, resp, i + 1, posted)

\* lines 129-162
send_telegram_notification(e, message, resp) ==
    LET c == get_telegram_credentials(e) IN
    IF ~c.token \/ c.chat_ids = <<>>
    THEN [success_count |-> 0, total_attempts |-> 0, posts |-> <<>>, raised |-> FALSE]
    ELSE SendLoop(c.chat_ids, message, resp, 1,
                  [success_count |-> 0, total_attempts |-> Len(c.chat_ids),
                   posts |-> <<>>, raised |-> FALSE])

RawIds == { "", " ", "a", " b", "c" }
Envs == [token : BOOLEAN, ids : SeqsUpTo(RawIds, MaxRecipients)]
Outcomes == { "200", "non200", "exception" }

(***************************************************************************)
(* SpecExtract: fetch_headlines' extraction applied to every page of Pages.*)
(***************************************************************************)
NoResult == [headlines |-> <<>>, consulted |-> <<>>]
NoNotify == [success_count |-> 0, total_attempts |-> 0, posts |-> <<>>, raised |-> FALSE]
NoEnv == [token |-> FALSE, ids |-> <<>>]
NoResponses == [i \in 1..MaxRecipients |-> "200"]

NoCred == [token |-> FALSE, chat_ids |-> <<>>]

ExtractIdle == page = <<>> /\ epc = "off" /\ result = NoResult
NotifyIdle == responses = NoResponses /\ npc = "off" /\ nres = NoNotify
MainIdle ==
    /\ db = <<>> /\ tableExists = FALSE /\ run = 0 /\ pc = "off"
    /\ cred = NoCred /\ conn = "unset" /\ handle = "none" /\ txn = <<>>
    /\ headlines = <<>> /\ new_headlines = <<>> /\ sendResult = <<0, 0>>
    /\ exit = "" /\ calls = <<>> /\ startRows = 0 /\ probeFailed = FALSE
    /\ aborted = <<>> /\ saved = {} /\ notified = {}

ExtractInit ==
    /\ page \in Pages
    /\ epc = "ready"
    /\ result = NoResult
    /\ env = NoEnv
    /\ NotifyIdle
    /\ MainIdle

Extract ==
    /\ epc = "ready"
    /\ result' = ExtractHeadlines(page)
    /\ epc' = "returned"
    /\ UNCHANGED <<page, env, nvars, mvars>>

SpecExtract == ExtractInit /\ [][Extract]_vars

(***************************************************************************)
(* SpecNotify: send_telegram_notification on every configuration of Envs   *)
(* and every pattern of per-recipient responses.                           *)
(***************************************************************************)
NotifyInit ==
    /\ env \in Envs
    /\ responses \in [1..MaxRecipients -> Outcomes]
    /\ npc = "ready"
    /\ nres = NoNotify
    /\ ExtractIdle
    /\ MainIdle

Notify ==
    /\ npc = "ready"
    /\ nres' = send_telegram_notification(env, "msg", responses)
    /\ npc' = "returned"
    /\ UNCHANGED <<env, responses, evars, mvars>>

SpecNotify == NotifyInit /\ [][Notify]_vars

(***************************************************************************)
(* save_headlines on a connection whose view is committed rows + txn.      *)
(***************************************************************************)
\* line 290-294: SELECT id FROM headlines WHERE title = ? finds a row
TitleSeen(rows, title) == \E k \in 1..Len(rows) : rows[k].title = title

\* Mutant: the existence check is made on the link instead of the title.
RECURSIVE SaveLoop_ByUrl(_, _, _, _, _)
SaveLoop_ByUrl(rows, cands, failAt, i, st) ==
    IF i > Len(cands)
    THEN IF failAt = i THEN [st EXCEPT !.raised = TRUE]
         ELSE [rows |-> rows \o st.txn, txn |-> <<>>, new |-> st.new, raised |-> FALSE]
    ELSE IF failAt = i THEN [st EXCEPT !.raised = TRUE]
    ELSE IF \E k \in 1..Len(rows \o st.txn) : (rows \o st.txn)[k].url = cands[i].url
         THEN SaveLoop_ByUrl(rows, cands, failAt, i + 1, st)
    ELSE SaveLoop_ByUrl(rows, cands, failAt, i + 1,
            [st EXCEPT !.txn = Append(@, cands[i]), !.new = Append(@, cands[i])])

\* Lines 288-302 from candidate i on.  st.txn holds the rows inserted so far,
\* st.new is new_headlines.  failAt = i: the execute for candidate i raises;
\* failAt = Len(cands) + 1: conn.commit() raises; failAt = 0: nothing raises.
\* On a raise nothing was committed: rows stay and st.txn stays pending.
RECURSIVE SaveLoop(_, _, _, _, _)
SaveLoop(rows, cands, failAt, i, st) ==
    IF i > Len(cands)
    THEN IF failAt = i THEN [st EXCEPT !.raised = TRUE]
         ELSE [rows |-> rows \o st.txn, txn |-> <<>>, new |-> st.new, raised |-> FALSE]
    ELSE IF failAt = i THEN [st EXCEPT !.raised = TRUE]
    ELSE IF TitleSeen(rows \o st.txn, cands[i].title)
         THEN SaveLoop(rows, cands, failAt, i + 1, st)
    ELSE SaveLoop(rows, cands, failAt, i + 1,
            [st EXCEPT !.txn = Append(@, cands[i]), !.new = Append(@, cands[i])])

\* lines 280-302
save_headlines(rows, cands, failAt) ==
    IF cands = <<>>
    THEN [rows |-> rows, txn |-> <<>>, new |-> <<>>, raised |-> FALSE]
    ELSE SaveLoop(rows, cands, failAt, 1,
                  [rows |-> rows, txn |-> <<>>, new |-> <<>>, raised |-> FALSE])

(***************************************************************************)
(* The messages main builds.                                               *)
(***************************************************************************)
\* lines 306-309
test_message == [kind |-> "test", items |-> <<>>]

\* lines 373-376: a title of more than 80 characters is cut to its first 77
\* and "..."; <<id, 80>> stands for that text
CutTitle(title) == IF title[2] > NotifyTitleLen THEN <<title[1], NotifyTitleLen>> ELSE title

Min(a, b) == IF a < b THEN a ELSE b

\* Mutant: the slice [:5] is missing.
HeadlineMessage_All(new) ==
    [kind  |-> "headlines",
     items |-> [i \in 1..Len(new) |-> [title |-> CutTitle(new[i].title), url |-> new[i].url]]]

\* lines 370-377
HeadlineMessage(new) ==
    [kind  |-> "headlines",
     items |-> [i \in 1..Min(Len(new), NotifyLimit) |->
                    [title |-> CutTitle(new[i].title), url |-> new[i].url]]]

(***************************************************************************)
(* The runs of main.                                                       *)
(***************************************************************************)
MainChatIds == <<"a", " b">>

MainEnvs ==
    { [token |-> TRUE,  ids |-> MainChatIds],
      [token |-> FALSE, ids |-> <<"a">>],
      [token |-> TRUE,  ids |-> <<"", " ">>] }

Elem(id, len, link) == [matches |-> {1}, title |-> <<id, len>>, href |-> <<"rel", link>>]

\* The pages a run can fetch: one with more new headlines than a message
\* takes (the third title has 100 characters), one where a title occurs
\* twice with different links, one that overlaps both, one without any
\* acceptable element.
MainPages ==
    { [i \in 1..(NotifyLimit + ExtraNew) |-> Elem(i, IF i = 3 THEN 100 ELSE 20 + i, i)],
      << Elem(1, 21, 1), Elem(1, 21, 50), Elem(51, 30, 51) >>,
      << Elem(51, 30, 51), Elem(2, 22, 2) >>,
      << Elem(60, 5, 60) >> }

MainResponses == [1..Len(MainChatIds) -> Outcomes \cup {"interrupt"}]

Enabled == cred.token /\ cred.chat_ids # <<>>

Init ==
    /\ page = <<>> /\ epc = "off" /\ result = NoResult
    /\ env = NoEnv
    /\ NotifyIdle
    /\ db = <<>> /\ tableExists = FALSE /\ run = 0 /\ pc = "exited"
    /\ cred = NoCred /\ conn = "unset" /\ handle = "none" /\ txn = <<>>
    /\ headlines = <<>> /\ new_headlines = <<>> /\ sendResult = <<0, 0>>
    /\ exit = "" /\ calls = <<>> /\ startRows = 0 /\ probeFailed = FALSE
    /\ aborted = <<>> /\ saved = {} /\ notified = {}

\* A new process runs main: lines 334-341.
StartRun ==
    /\ pc = "exited"
    /\ run < MaxRuns
    /\ \E e \in MainEnvs :
         /\ env' = e
         /\ cred' = get_telegram_credentials(e)
         /\ pc' = IF get_telegram_credentials(e).token THEN "is_first_run" ELSE "setup_connect"
    /\ run' = run + 1
    /\ conn' = "unset" /\ handle' = "none" /\ txn' = <<>>
    /\ headlines' = <<>> /\ new_headlines' = <<>> /\ sendResult' = <<0, 0>>
    /\ exit' = "" /\ calls' = <<>> /\ startRows' = Len(db)
    /\ probeFailed' = FALSE /\ aborted' = <<>>
    /\ UNCHANGED <<db, tableExists, saved, notified, evars, nvars>>

\* is_first_run, lines 318-330, on a connection of its own that `finally`
\* closes.  The query raises when the table does not exist yet, and may raise
\* for any other reason (sqlite3.Error, or a KeyboardInterrupt, which the
\* bare `except:` catches as well); every raise answers True.
IsFirstRun ==
    /\ pc = "is_first_run"
    /\ \E raises \in BOOLEAN :
         /\ probeFailed' = raises
         /\ pc' = IF raises \/ ~tableExists \/ Len(db) = 0
                  THEN "bootstrap" ELSE "setup_connect"
    /\ calls' = Append(calls, <<"is_first_run">>)
    /\ UNCHANGED <<db, tableExists, run, cred, conn, handle, txn, headlines,
                   new_headlines, sendResult, exit, startRows, aborted, saved,
                   notified, env, evars, nvars>>

\* send_test_notification, lines 344-346 and 304-316.  A KeyboardInterrupt
\* inside the send loop leaves main uncaught (the call is outside the try).
SendTest ==
    /\ pc = "bootstrap"
    /\ \E resp \in MainResponses :
         LET r == send_telegram_notification(env, test_message, resp) IN
         /\ calls' = Append(calls, <<"send", test_message>>)
         /\ IF r.raised
            THEN pc' = "exited" /\ exit' = "crash"
            ELSE pc' = "setup_connect" /\ exit' = exit
    /\ UNCHANGED <<db, tableExists, run, cred, conn, handle, txn, headlines,
                   new_headlines, sendResult, startRows, probeFailed, aborted,
                   saved, notified, env, evars, nvars>>

\* Mutant: main goes on after setup_database returned None.
SetupConnect_NoReturn ==
    /\ pc = "setup_connect"
    /\ calls' = Append(calls, <<"setup_database">>)
    /\ \E ok \in BOOLEAN :
         IF ok
         THEN handle' = "open" /\ pc' = "setup_create" /\ conn' = conn /\ exit' = exit
         ELSE handle' = handle /\ conn' = "None" /\ pc' = "fetch" /\ exit' = exit
    /\ UNCHANGED <<db, tableExists, run, cred, txn, headlines, new_headlines,
                   sendResult, startRows, probeFailed, aborted, saved, notified,
                   env, evars, nvars>>

\* setup_database up to sqlite3.connect, line 84.  When connect raises,
\* setup_database returns None (lines 97-100) and main returns (350-351).
SetupConnect ==
    /\ pc = "setup_connect"
    /\ calls' = Append(calls, <<"setup_database">>)
    /\ \E ok \in BOOLEAN :
         IF ok
         THEN handle' = "open" /\ pc' = "setup_create" /\ conn' = conn /\ exit' = exit
         ELSE handle' = handle /\ conn' = "None" /\ pc' = "exited" /\ exit' = "return"
    /\ UNCHANGED <<db, tableExists, run, cred, txn, headlines, new_headlines,
                   sendResult, startRows, probeFailed, aborted, saved, notified,
                   env, evars, nvars>>

\* setup_database after the connect, lines 85-100: CREATE TABLE IF NOT EXISTS
\* and commit.  "raise": an Exception, caught at line 97, None is returned
\* and main returns; "interrupt": a KeyboardInterrupt, which `except
\* Exception` does not catch and which leaves main, raised outside its try.
\* Neither path closes the connection opened at line 84.
SetupCreate ==
    /\ pc = "setup_create"
    /\ \E outcome \in {"ok", "raise", "interrupt"} :
         CASE outcome = "ok" ->
                /\ tableExists' = TRUE /\ conn' = "handle"
                /\ pc' = "fetch" /\ exit' = exit
           [] outcome = "raise" ->
                /\ tableExists' = tableExists /\ conn' = "None"
                /\ pc' = "exited" /\ exit' = "return"
           [] OTHER ->
                /\ tableExists' = tableExists /\ conn' = conn
                /\ pc' = "exited" /\ exit' = "crash"
    /\ UNCHANGED <<db, run, cred, handle, txn, headlines, new_headlines,
                   sendResult, calls, startRows, probeFailed, aborted, saved,
                   notified, env, evars, nvars>>

\* fetch_headlines, lines 355-361 and 164-228: the candidates of the page
\* served, or [] when the request fails; `return` when there are none.
Fetch ==
    /\ pc = "fetch"
    /\ calls' = Append(calls, <<"fetch_headlines">>)
    /\ \E served \in MainPages, ok \in BOOLEAN :
         headlines' = IF ok THEN ExtractHeadlines(served).headlines ELSE <<>>
    /\ IF headlines' = <<>>
       THEN pc' = "finally" /\ exit' = "return"
       ELSE pc' = "save" /\ exit' = exit
    /\ UNCHANGED <<db, tableExists, run, cred, conn, handle, txn, new_headlines,
                   sendResult, startRows, probeFailed, aborted, saved, notified,
                   env, evars, nvars>>

\* save_headlines, line 364.  When it raises (an Exception or a
\* KeyboardInterrupt inside it) control goes to main's handlers with the
\* inserted rows still uncommitted on the connection.
Save ==
    /\ pc = "save"
    /\ conn = "handle"
    /\ calls' = Append(calls, <<"save_headlines">>)
    /\ \E failAt \in 0..(Len(headlines) + 1), kind \in {"error", "interrupt"} :
         LET r == save_headlines(db, headlines, failAt) IN
         IF r.raised
         THEN /\ db' = db /\ txn' = r.txn /\ aborted' = r.txn
              /\ new_headlines' = new_headlines /\ saved' = saved
              /\ pc' = "finally" /\ exit' = kind
         ELSE /\ kind = "error"
              /\ db' = r.rows /\ txn' = r.txn /\ aborted' = aborted
              /\ new_headlines' = r.new
              /\ saved' = saved \cup {<<run, headlines>>}
              /\ pc' = "notify" /\ exit' = exit
    /\ UNCHANGED <<tableExists, run, cred, conn, handle, headlines, sendResult,
                   startRows, probeFailed, notified, env, evars, nvars>>

\* Mutant: the message is sent for every non-empty fetch, new or not.
Notify_Headlines_Always ==
    /\ pc = "notify"
    /\ IF headlines # <<>> /\ Enabled
       THEN \E resp \in MainResponses :
              LET m == HeadlineMessage(headlines)
                  r == send_telegram_notification(env, m, resp) IN
              /\ calls' = Append(calls, <<"send", m>>)
              /\ notified' = notified \cup
                    { <<headlines[i].title, run, r.success_count>> : i \in 1..Len(m.items) }
              /\ sendResult' = <<r.success_count, r.total_attempts>>
              /\ exit' = IF r.raised THEN "interrupt" ELSE "return"
       ELSE UNCHANGED <<calls, notified, sendResult>> /\ exit' = "return"
    /\ pc' = "finally"
    /\ UNCHANGED <<db, tableExists, run, cred, conn, handle, txn, headlines,
                   new_headlines, startRows, probeFailed, aborted, saved,
                   env, evars, nvars>>

\* lines 367-388: one message with the first new headlines, when there are
\* new ones and credentials.  A KeyboardInterrupt inside the send loop is
\* caught at line 390.
Notify_Headlines ==
    /\ pc = "notify"
    /\ IF new_headlines # <<>> /\ Enabled
       THEN \E resp \in MainResponses :
              LET m == HeadlineMessage(new_headlines)
                  r == send_telegram_notification(env, m, resp) IN
              /\ calls' = Append(calls, <<"send", m>>)
              /\ notified' = notified \cup
                    { <<new_headlines[i].title, run, r.success_count>> : i \in 1..Len(m.items) }
              /\ sendResult' = <<r.success_count, r.total_attempts>>
              /\ exit' = IF r.raised THEN "interrupt" ELSE "return"
       ELSE UNCHANGED <<calls, notified, sendResult>> /\ exit' = "return"
    /\ pc' = "finally"
    /\ UNCHANGED <<db, tableExists, run, cred, conn, handle, txn, headlines,
                   new_headlines, startRows, probeFailed, aborted, saved,
                   env, evars, nvars>>

\* A KeyboardInterrupt between the calls inside main's try, lines 353-388:
\* caught at line 390.
InterruptInTry ==
    /\ pc \in {"fetch", "save", "notify"}
    /\ pc' = "finally"
    /\ exit' = "interrupt"
    /\ UNCHANGED <<db, tableExists, run, cred, conn, handle, txn, headlines,
                   new_headlines, sendResult, calls, startRows, probeFailed,
                   aborted, saved, notified, env, evars, nvars>>

\* A KeyboardInterrupt between the calls before main's try, lines 334-351:
\* nothing catches it.
InterruptBeforeTry ==
    /\ pc \in {"is_first_run", "bootstrap", "setup_connect"}
    /\ pc' = "exited"
    /\ exit' = "crash"
    /\ UNCHANGED <<db, tableExists, run, cred, conn, handle, txn, headlines,
                   new_headlines, sendResult, calls, startRows, probeFailed,
                   aborted, saved, notified, env, evars, nvars>>

\* Mutant: the connection is committed before it is closed.
Close_Commit ==
    /\ pc = "finally"
    /\ handle' = IF conn = "handle" THEN "closed" ELSE handle
    /\ db' = db \o txn
    /\ txn' = <<>>
    /\ pc' = "exited"
    /\ UNCHANGED <<tableExists, run, cred, conn, headlines, new_headlines,
                   sendResult, exit, calls, startRows, probeFailed, aborted,
                   saved, notified, env, evars, nvars>>

\* finally, lines 395-397: conn.close() without a commit discards the rows
\* inserted since the last commit.
Close ==
    /\ pc = "finally"
    /\ handle' = IF conn = "handle" THEN "closed" ELSE handle
    /\ txn' = <<>>
    /\ pc' = "exited"
    /\ UNCHANGED <<db, tableExists, run, cred, conn, headlines, new_headlines,
                   sendResult, exit, calls, startRows, probeFailed, aborted,
                   saved, notified, env, evars, nvars>>

Next ==
    \/ StartRun
    \/ IsFirstRun
    \/ SendTest
    \/ SetupConnect
    \/ SetupCreate
    \/ Fetch
    \/ Save
    \/ Notify_Headlines
    \/ InterruptInTry
    \/ InterruptBeforeTry
    \/ Close

Spec == Init /\ [][Next]_vars

(***************************************************************************)
(* Properties.                                                             *)
(***************************************************************************)
Range(f) == { f[i] : i \in DOMAIN f }

\* the messages main handed to send_telegram_notification in this run
Sends == SelectSeq(calls, LAMBDA c : c[1] = "send")
TestSends == SelectSeq(Sends, LAMBDA c : c[2].kind = "test")
HeadlineSends == SelectSeq(Sends, LAMBDA c : c[2].kind = "headlines")
Called(name) == \E i \in 1..Len(calls) : calls[i][1] = name

\* C1: save_headlines is idempotent on title.  The table (as the connection
\* sees it) never holds two rows with one title; once save_headlines has
\* returned, a second call with the same candidates on the same connection
\* returns [] and adds no row; and a call in a later run with candidates
\* that an earlier call saved returns [].
Thm_C1 ==
    /\ \A i, j \in 1..Len(db \o txn) :
            i # j => (db \o txn)[i].title # (db \o txn)[j].title
    /\ pc = "notify" =>
            /\ save_headlines(db, headlines, 0).new = <<>>
            /\ save_headlines(db, headlines, 0).rows = db
    /\ (pc = "notify" /\ \E s \in saved : s[1] < run /\ s[2] = headlines) =>
            new_headlines = <<>>

\* a later run saved, again, candidates that hold one title under two links
W_C1 ==
    /\ pc = "notify"
    /\ \E s \in saved : s[1] < run /\ s[2] = headlines
    /\ \E i, j \in 1..Len(headlines) :
            /\ i # j
            /\ headlines[i].title = headlines[j].title
            /\ headlines[i].url # headlines[j].url
    /\ new_headlines = <<>>

\* C2 (as stated): with notifications enabled and no record in the store
\* when the run starts, exactly one bootstrap message is handed to the
\* Notifier, before any headline message; a run that starts with a non-empty
\* store sends no bootstrap message.
Orig_C2 ==
    /\ ( /\ Enabled
         /\ startRows = 0
         /\ pc \in {"setup_connect", "setup_create", "fetch", "save", "notify", "finally"} )
        => ( /\ Len(TestSends) = 1
             /\ Sends[1][2].kind = "test" )
    /\ startRows > 0 => TestSends = <<>>

\* C3: send_telegram_notification posts once to every recipient, in list
\* order, whatever the earlier posts did; total_attempts is the number of
\* recipients and success_count the number of posts answered with 200.
Thm_C3 ==
    npc = "returned" =>
        LET ids == get_telegram_credentials(env).chat_ids IN
        /\ Len(nres.posts) = Len(ids)
        /\ \A i \in 1..Len(ids) : nres.posts[i].chat_id = ids[i]
        /\ nres.total_attempts = Len(ids)
        /\ nres.success_count = Cardinality({ i \in 1..Len(ids) : responses[i] = "200" })
        /\ ~nres.raised

\* three recipients, the second post fails, the others are answered with 200
W_C3 ==
    /\ npc = "returned"
    /\ Len(get_telegram_credentials(env).chat_ids) = 3
    /\ responses[1] = "200" /\ responses[2] = "exception" /\ responses[3] = "200"
    /\ nres.total_attempts = 3
    /\ nres.success_count = 2
    /\ Len(nres.posts) = 3

\* C4 (as stated): a run whose Store initialization failed has made no
\* Notifier call at all, and has neither fetched nor saved.
Orig_C4 ==
    conn = "None" =>
        ~Called("send") /\ ~Called("fetch_headlines") /\ ~Called("save_headlines")

\* C4 (amended): a run whose Store initialization failed ends there, without
\* fetching, without saving and without a headline message; the only
\* message it can have sent is the bootstrap message, which main sends before
\* it calls setup_database.
Thm_C4 ==
    conn = "None" =>
        /\ pc = "exited"
        /\ ~Called("fetch_headlines") /\ ~Called("save_headlines")
        /\ HeadlineSends = <<>>
        /\ Len(db) = startRows
        /\ \A i \in 1..Len(calls) :
                calls[i][1] = "send" =>
                    \E j \in (i + 1)..Len(calls) : calls[j][1] = "setup_database"

\* initialization failed after the bootstrap message was sent
W_C4 ==
    /\ conn = "None"
    /\ pc = "exited"
    /\ Len(TestSends) = 1

\* C5 (as stated): after a run in which save_headlines raised at its k-th
\* candidate, the rows it inserted for the earlier candidates are in the
\* persisted table.
Orig_C5 ==
    (pc = "exited" /\ exit = "error" /\ aborted # <<>>) =>
        \A i \in 1..Len(aborted) : aborted[i] \in Range(db)

\* C5 (amended): when save_headlines raises at its k-th candidate the save
\* step is aborted and no headline message is sent; the rows inserted for
\* the earlier candidates are pending on the connection, and closing it
\* discards them: after the run the table is what it was before the run and
\* holds none of those titles.
Thm_C5 ==
    (exit = "error" /\ aborted # <<>>) =>
        /\ HeadlineSends = <<>>
        /\ new_headlines = <<>>
        /\ Len(db) = startRows
        /\ \A i \in 1..Len(aborted) : ~TitleSeen(db, aborted[i].title)
        /\ pc = "finally" => txn = aborted
        /\ pc = "exited" => txn = <<>>

\* a run ended after save_headlines raised with two rows inserted
W_C5 ==
    /\ pc = "exited"
    /\ exit = "error"
    /\ Len(aborted) >= 2

\* C6 (as stated): a run that a KeyboardInterrupt ended has no open
\* connection left when it exits.
Orig_C6 ==
    (pc = "exited" /\ exit \in {"interrupt", "crash"}) => handle # "open"

\* C7: a run with credentials whose save_headlines returned n >= 1 new
\* headlines hands exactly one headline message to the Notifier, made of the
\* first min(n, 5) new headlines in order; no run sends more than one, none
\* is sent when n = 0, and when it is sent all n rows are committed.
Thm_C7 ==
    /\ Len(HeadlineSends) <= 1
    /\ (pc \in {"finally", "exited"} /\ exit = "return" /\ Enabled /\ new_headlines # <<>>) =>
            Len(HeadlineSends) = 1
    /\ HeadlineSends # <<>> =>
            LET items == HeadlineSends[1][2].items
                n == Len(new_headlines) IN
            /\ n >= 1
            /\ Len(items) = Min(n, NotifyLimit)
            /\ \A i \in 1..Len(items) :
                    /\ items[i].url = new_headlines[i].url
                    /\ items[i].title[1] = new_headlines[i].title[1]
            /\ txn = <<>>
            /\ \A i \in 1..n : new_headlines[i] \in Range(db)

\* a run saved more than five new headlines and sent its message
W_C7 ==
    /\ pc = "exited"
    /\ exit = "return"
    /\ Len(new_headlines) > NotifyLimit
    /\ Len(HeadlineSends) = 1
    /\ Len(HeadlineSends[1][2].items) = NotifyLimit

\* C8: fetch_headlines returns at most 20 candidates, no two with the same
\* absolute link.
Thm_C8 ==
    epc = "returned" =>
        /\ Len(result.headlines) <= MaxHeadlines
        /\ \A i, j \in 1..Len(result.headlines) :
                i # j => result.headlines[i].url # result.headlines[j].url

\* the cap was reached on a page with more than 20 different acceptable
\* links, one of them written both as "/path" and in full
W_C8 ==
    /\ epc = "returned"
    /\ Len(result.headlines) = MaxHeadlines
    /\ Cardinality({ ResolveUrl(page[i].href) : i \in 1..Len(page) } \ {Skip}) > MaxHeadlines
    /\ \E i, j \in 1..Len(page) :
            /\ page[i].href # page[j].href
            /\ ResolveUrl(page[i].href) = ResolveUrl(page[j].href)
            /\ ResolveUrl(page[i].href) # Skip

\* what selector s alone accepts from a page
Accepted(doc, s) == ScanElements(Select(doc, s), 1, <<>>)

\* C9: the selectors are tried in priority order, a selector is tried only
\* when every selector before it accepted nothing, none is tried after one
\* that accepted something, and what is returned is what the last selector
\* tried accepted, so every candidate comes from that one selector.
Thm_C9 ==
    epc = "returned" =>
        LET tried == result.consulted
            last == Len(tried) IN
        /\ last >= 1
        /\ \A k \in 1..last : tried[k] = k
        /\ \A k \in 1..(last - 1) : Accepted(page, k) = <<>>
        /\ last < Len(selectors) => Accepted(page, last) # <<>>
        /\ result.headlines = Accepted(page, last)
        /\ \A h \in Range(result.headlines) :
                \E i \in 1..Len(page) :
                    /\ last \in page[i].matches
                    /\ page[i].title = h.title
                    /\ ResolveUrl(page[i].href) = h.url

\* selector 1 matched elements that were all rejected, selector 2 accepted
\* some, and a later selector that would have accepted one was never tried
W_C9 ==
    /\ epc = "returned"
    /\ result.consulted = <<1, 2>>
    /\ Select(page, 1) # <<>>
    /\ result.headlines # <<>>
    /\ \E s \in 3..Len(selectors) : Accepted(page, s) # <<>>

\* C10: no title is put into a headline message in two runs (nor twice in
\* one), and a title put into a message is committed in the table.
Thm_C10 ==
    /\ \A p, q \in notified : p[1] = q[1] => p = q
    /\ \A p \in notified : TitleSeen(db, p[1])

\* a title whose message reached no recipient in an earlier run was fetched
\* again by a run that ended normally
W_C10 ==
    /\ pc = "exited"
    /\ exit = "return"
    /\ new_headlines # <<>>
    /\ \E p \in notified :
            /\ p[2] < run
            /\ p[3] = 0
            /\ \E i \in 1..Len(headlines) : headlines[i].title = p[1]

====
